---- MODULE Spec2Model ----
(***************************************************************************)
(* Model of gh-token-switch: the alias directory (config.toml), the        *)
(* keyring entries addressed by alias, the credential held by `gh`, and    *)
(* one process invocation per step (load_config, one command, at most one  *)
(* save_config).                                                           *)
(***************************************************************************)
EXTENDS Integers, Sequences, FiniteSets, TLC

(* ------------------------------------------------------------------ bounds *)

\* Number of process invocations explored from the empty directory.
MaxRuns == 4

\* Longest alias list handed to the pure transforms in SpecPure.
MaxAliases == 3

(* ------------------------------------------------------------------ inputs *)

\* Alias names typed on the command line.
Names == {"work", "personal", "acme"}

\* A name that never reaches the directory through a command (the unit tests'
\* "missing"), used as an argument of the pure functions.
PureNames == Names \cup {"missing"}

Whitespace == {" ", "\n"}

\* What read_token_from_user can return: a terminal prompt is not trimmed, a
\* pipe is; a blank line is possible.
TokenInputs == {<<"x">>, <<"y">>, <<"x", "\n">>, <<" ">>}

(* ------------------------------------------------------------ Option<T> *)

None == <<>>

Some(x) == <<x>>

(* ---------------------------------------------------------------- config *)

\* HashMap::new; a map is the set of its <<key, value>> entries.
EmptyMap == {}

\* HashMap::keys
Keys(m) == {e[1] : e \in m}

\* HashMap::get, for a key the map holds
MapGet(m, k) == (CHOOSE e \in m : e[1] = k)[2]

NotificationConfigDefault ==
  [enabled |-> TRUE, only_when_no_tty |-> TRUE, only_on_implicit_cycle |-> TRUE]

ConfigDefault ==
  [aliases |-> <<>>,
   fingerprints |-> EmptyMap,
   notifications |-> NotificationConfigDefault,
   last_used_alias |-> None]

\* aliases.iter().any(|a| a == alias)
Contains(aliases, alias) == \E i \in 1..Len(aliases) : aliases[i] = alias

\* aliases.iter().position(|a| a == alias), 1-based; 0 when absent
Position(aliases, alias) ==
  IF Contains(aliases, alias)
  THEN CHOOSE i \in 1..Len(aliases) :
         /\ aliases[i] = alias
         /\ \A j \in 1..(i - 1) : aliases[j] # alias
  ELSE 0

\* HashMap::insert
MapInsert(m, k, v) == {e \in m : e[1] # k} \cup {<<k, v>>}

\* HashMap::remove
MapRemove(m, k) == {e \in m : e[1] # k}

\* ensure_alias without its membership test.
ensure_alias_always_push(cfg, alias) ==
  [cfg EXCEPT !.aliases = Append(cfg.aliases, alias)]

\* ensure_alias inserting an absent name at the front.
ensure_alias_push_front(cfg, alias) ==
  IF ~Contains(cfg.aliases, alias)
  THEN [cfg EXCEPT !.aliases = <<alias>> \o cfg.aliases]
  ELSE cfg

ensure_alias(cfg, alias) ==
  IF ~Contains(cfg.aliases, alias)
  THEN [cfg EXCEPT !.aliases = Append(cfg.aliases, alias)]
  ELSE cfg

(* ----------------------------------------------------------------- logic *)

\* Byte values of the characters tokens are made of.
Code(c) ==
  CASE c = "x" -> 120
    [] c = "y" -> 121
    [] c = " " -> 32
    [] c = "\n" -> 10

\* The hash of the token's bytes: a 16-bit multiplicative hash stands for
\* SHA-256 (deterministic, every byte mixed into the whole digest).
RECURSIVE Digest(_, _)
Digest(h, token) ==
  IF token = <<>> THEN h
  ELSE Digest(((h + Code(Head(token))) * 40503) % 65536, Tail(token))

\* format!("{digest:x}").chars().take(16): the leading hex digits of the digest;
\* here the leading two of four.
token_fingerprint(token) == Digest(7, token) \div 256

RECURSIVE TrimStart(_)
TrimStart(s) ==
  IF s # <<>> /\ Head(s) \in Whitespace THEN TrimStart(Tail(s)) ELSE s

RECURSIVE TrimEnd(_)
TrimEnd(s) ==
  IF s # <<>> /\ s[Len(s)] \in Whitespace
  THEN TrimEnd(SubSeq(s, 1, Len(s) - 1))
  ELSE s

\* str::trim
Trim(s) == TrimEnd(TrimStart(s))

\* alias_for_token fingerprinting the token as given, whitespace included.
alias_for_token_no_trim(cfg, token) ==
  LET fp == token_fingerprint(token)
      hits == {e[1] : e \in {e \in cfg.fingerprints : e[2] = fp}}
  IN IF hits = {} THEN {None} ELSE {Some(a) : a \in hits}

\* The set of values alias_for_token can return: HashMap iteration order is
\* unspecified, so find() yields any alias whose fingerprint matches.
alias_for_token(cfg, token) ==
  LET fp == token_fingerprint(Trim(token))
      hits == {e[1] : e \in {e \in cfg.fingerprints : e[2] = fp}}
  IN IF hits = {} THEN {None} ELSE {Some(a) : a \in hits}

Err(kind) == [ok |-> FALSE, err |-> kind]

Ok(v) == [ok |-> TRUE, val |-> v]

\* choose_next_alias treating a current that is not in the list as no current.
choose_next_alias_unknown_as_none(aliases, current) ==
  IF Len(aliases) < 2 THEN Err("InsufficientAliases")
  ELSE IF current # None /\ Contains(aliases, current[1])
       THEN Ok(aliases[(Position(aliases, current[1]) % Len(aliases)) + 1])
       ELSE Ok(aliases[1])

\* choose_next_alias accepting a single alias.
choose_next_alias_min_one(aliases, current) ==
  IF Len(aliases) < 1 THEN Err("InsufficientAliases")
  ELSE IF current # None
       THEN LET p == Position(aliases, current[1])
                idx == IF p = 0 THEN 0 ELSE p - 1
                next == (idx + 1) % Len(aliases)
            IN Ok(aliases[next + 1])
       ELSE Ok(aliases[1])

\* choose_next_alias treating no current as a current at index 0.
choose_next_alias_none_as_index0(aliases, current) ==
  IF Len(aliases) < 2 THEN Err("InsufficientAliases")
  ELSE LET p == IF current # None THEN Position(aliases, current[1]) ELSE 0
           idx == IF p = 0 THEN 0 ELSE p - 1
           next == (idx + 1) % Len(aliases)
       IN Ok(aliases[next + 1])

choose_next_alias(aliases, current) ==
  IF Len(aliases) < 2 THEN Err("InsufficientAliases")
  ELSE IF current # None
       THEN LET p == Position(aliases, current[1])
                idx == IF p = 0 THEN 0 ELSE p - 1
                next == (idx + 1) % Len(aliases)
            IN Ok(aliases[next + 1])
       ELSE Ok(aliases[1])

\* Vec::retain(|a| a != alias)
RECURSIVE Retain(_, _)
Retain(aliases, alias) ==
  IF aliases = <<>> THEN <<>>
  ELSE IF Head(aliases) # alias
       THEN <<Head(aliases)>> \o Retain(Tail(aliases), alias)
       ELSE Retain(Tail(aliases), alias)

\* apply_rename_metadata that leaves last_used_alias alone.
apply_rename_metadata_keeps_last_used(cfg, old, new) ==
  LET idx == Position(cfg.aliases, old)
      aliases1 == IF idx # 0
                  THEN [cfg.aliases EXCEPT ![idx] = new]
                  ELSE Append(cfg.aliases, new)
      fps1 == IF old \in Keys(cfg.fingerprints)
              THEN MapInsert(MapRemove(cfg.fingerprints, old), new,
                             MapGet(cfg.fingerprints, old))
              ELSE cfg.fingerprints
  IN [cfg EXCEPT !.aliases = aliases1, !.fingerprints = fps1]

\* apply_rename_metadata that removes `old` and pushes `new` at the end.
apply_rename_metadata_moves_to_end(cfg, old, new) ==
  LET fps1 == IF old \in Keys(cfg.fingerprints)
              THEN MapInsert(MapRemove(cfg.fingerprints, old), new,
                             MapGet(cfg.fingerprints, old))
              ELSE cfg.fingerprints
      last1 == IF cfg.last_used_alias = Some(old)
               THEN Some(new)
               ELSE cfg.last_used_alias
  IN [cfg EXCEPT !.aliases = Append(Retain(cfg.aliases, old), new),
                 !.fingerprints = fps1,
                 !.last_used_alias = last1]

apply_rename_metadata(cfg, old, new) ==
  LET idx == Position(cfg.aliases, old)
      aliases1 == IF idx # 0
                  THEN [cfg.aliases EXCEPT ![idx] = new]
                  ELSE Append(cfg.aliases, new)
      fps1 == IF old \in Keys(cfg.fingerprints)
              THEN MapInsert(MapRemove(cfg.fingerprints, old), new,
                             MapGet(cfg.fingerprints, old))
              ELSE cfg.fingerprints
      last1 == IF cfg.last_used_alias = Some(old)
               THEN Some(new)
               ELSE cfg.last_used_alias
  IN [cfg EXCEPT !.aliases = aliases1,
                 !.fingerprints = fps1,
                 !.last_used_alias = last1]

\* apply_delete_metadata that forgets the fingerprint entry.
apply_delete_metadata_keeps_fingerprint(cfg, alias) ==
  [cfg EXCEPT !.aliases = Retain(cfg.aliases, alias),
              !.last_used_alias = IF cfg.last_used_alias = Some(alias)
                                  THEN None
                                  ELSE cfg.last_used_alias]

\* apply_delete_metadata that forgets the last-used marker.
apply_delete_metadata_keeps_last_used(cfg, alias) ==
  [cfg EXCEPT !.aliases = Retain(cfg.aliases, alias),
              !.fingerprints = MapRemove(cfg.fingerprints, alias)]

apply_delete_metadata(cfg, alias) ==
  [cfg EXCEPT !.aliases = Retain(cfg.aliases, alias),
              !.fingerprints = MapRemove(cfg.fingerprints, alias),
              !.last_used_alias = IF cfg.last_used_alias = Some(alias)
                                  THEN None
                                  ELSE cfg.last_used_alias]

(* ---------------------------------------------------------------- notify *)

\* should_notify without the only_on_implicit_cycle test.
should_notify_ignores_implicit(cfg, implicit_cycle, has_tty) ==
  IF ~cfg.notifications.enabled THEN FALSE
  ELSE IF cfg.notifications.only_when_no_tty /\ has_tty THEN FALSE
  ELSE TRUE

\* io::stdin().is_terminal() || io::stdout().is_terminal()
\*   || io::stderr().is_terminal()
has_tty_of(stdin_tty, stdout_tty, stderr_tty) ==
  stdin_tty \/ stdout_tty \/ stderr_tty

should_notify(cfg, implicit_cycle, has_tty) ==
  IF ~cfg.notifications.enabled THEN FALSE
  ELSE IF cfg.notifications.only_on_implicit_cycle /\ ~implicit_cycle THEN FALSE
  ELSE IF cfg.notifications.only_when_no_tty /\ has_tty THEN FALSE
  ELSE TRUE

\* The events maybe_notify adds to the invocation's trace: one delivery
\* attempt when the gate opens, its failure discarded.
maybe_notify(cfg, implicit_cycle, has_tty, sent) ==
  IF ~should_notify(cfg, implicit_cycle, has_tty) THEN <<>>
  ELSE <<<<"notify", sent>>>>

(* ------------------------------------------------------------------ state *)

VARIABLES
  disk,     \* the Config in config.toml (ConfigDefault while the file is absent)
  store,    \* keyring: alias -> secret, for the aliases that have an entry
  active,   \* the token gh holds for github.com, None when logged out
  loaded,   \* what load_config returned to the last invocation
  cfg,      \* the in-memory Config when the last invocation returned
  cmd,      \* the last invocation's command line
  trace,    \* the external calls the last invocation made, in order
  result,   \* how the last invocation ended: "Ok" or the error kind
  stdout,   \* what the last invocation printed
  runs      \* invocations so far

vars == <<disk, store, active, loaded, cfg, cmd, trace, result, stdout, runs>>

\* What a handler leaves behind when it returns.
Exit(c, d, s, a, t, r, out) ==
  [cfg |-> c, disk |-> d, store |-> s, active |-> a, trace |-> t,
   result |-> r, stdout |-> out]

(* ------------------------------------------------------------------- main *)

\* set_token; `token` is what read_token_from_user returned and `fail` the
\* first step the environment makes fail.
set_token(alias, c, d, s, a, token, fail) ==
  IF fail = "read" THEN Exit(c, d, s, a, <<>>, "ReadFailed", <<>>)
  ELSE IF Trim(token) = <<>> THEN Exit(c, d, s, a, <<>>, "EmptyToken", <<>>)
  ELSE IF fail = "entry" THEN Exit(c, d, s, a, <<>>, "EntryFailed", <<>>)
  ELSE IF fail = "set"
       THEN Exit(c, d, s, a, <<<<"store_set", FALSE>>>>, "StoreError", <<>>)
  ELSE LET s1 == MapInsert(s, alias, Trim(token))
           c1 == ensure_alias(c, alias)
           c2 == [c1 EXCEPT !.fingerprints =
                    MapInsert(@, alias, token_fingerprint(Trim(token)))]
       IN IF fail = "save"
          THEN Exit(c2, d, s1, a,
                    <<<<"store_set", TRUE>>, <<"save", FALSE>>>>,
                    "SaveError", <<>>)
          ELSE Exit(c2, c2, s1, a,
                    <<<<"store_set", TRUE>>, <<"save", TRUE>>>>,
                    "Ok", <<"stored", alias>>)

\* gh_current_token: `gh auth token` prints the token and a newline, and
\* fails when gh is logged out (or cannot be run: ghOk = FALSE).
gh_current_token(a, ghOk) ==
  IF a = None \/ ~ghOk THEN Err("Unavailable") ELSE Ok(a[1] \o <<"\n">>)

\* current_alias that never recognises the active token.
current_alias_always_none(c, a, ghOk) == {None}

\* The values current_alias can return (never an error).
current_alias(c, a, ghOk) ==
  LET tok == gh_current_token(a, ghOk)
  IN IF ~tok.ok THEN {None} ELSE alias_for_token(c, tok.val)

\* pick_next_alias, given the value current_alias returned.
pick_next_alias(c, current) == choose_next_alias(c.aliases, current)

\* switch_gh_token: gh holds the token afterwards exactly when it succeeded.
switch_gh_token(a, token, ok) == IF ok THEN Some(token) ELSE a

\* The `match switched` block persisting the switch whatever gh answered.
use_switched_ignores_failure(switched, target, token, implicit_cycle, c, d, s, a1, t, saveOk, has_tty, sent) ==
  LET c1 == ensure_alias(c, target)
      c2 == [c1 EXCEPT
               !.fingerprints = MapInsert(@, target, token_fingerprint(token)),
               !.last_used_alias = Some(target)]
  IN IF ~saveOk
     THEN Exit(c2, d, s, a1, Append(t, <<"save", FALSE>>), "SaveError", <<>>)
     ELSE Exit(c2, c2, s, a1,
               Append(t, <<"save", TRUE>>)
                 \o maybe_notify(c2, implicit_cycle, has_tty, sent),
               IF switched THEN "Ok" ELSE "InstallFailed",
               IF switched THEN <<target>> ELSE <<>>)

\* The `match switched` block returning send_notification's error.
use_switched_fails_on_delivery(switched, target, token, implicit_cycle, c, d, s, a1, t, saveOk, has_tty, sent) ==
  IF switched
  THEN LET c1 == ensure_alias(c, target)
           c2 == [c1 EXCEPT
                    !.fingerprints =
                      MapInsert(@, target, token_fingerprint(token)),
                    !.last_used_alias = Some(target)]
       IN IF ~saveOk
          THEN Exit(c2, d, s, a1, Append(t, <<"save", FALSE>>),
                    "SaveError", <<>>)
          ELSE IF maybe_notify(c2, implicit_cycle, has_tty, sent)
                    = <<<<"notify", FALSE>>>>
               THEN Exit(c2, c2, s, a1,
                         Append(t, <<"save", TRUE>>)
                           \o maybe_notify(c2, implicit_cycle, has_tty, sent),
                         "NotifyFailed", <<>>)
               ELSE Exit(c2, c2, s, a1,
                         Append(t, <<"save", TRUE>>)
                           \o maybe_notify(c2, implicit_cycle, has_tty, sent),
                         "Ok", <<target>>)
  ELSE Exit(c, d, s, a1,
            t \o maybe_notify(c, implicit_cycle, has_tty, sent),
            "InstallFailed", <<>>)

\* The `match switched` block recording the switch without its fingerprint.
use_switched_no_fingerprint(switched, target, token, implicit_cycle, c, d, s, a1, t, saveOk, has_tty, sent) ==
  IF switched
  THEN LET c1 == ensure_alias(c, target)
           c2 == [c1 EXCEPT !.last_used_alias = Some(target)]
       IN IF ~saveOk
          THEN Exit(c2, d, s, a1, Append(t, <<"save", FALSE>>),
                    "SaveError", <<>>)
          ELSE Exit(c2, c2, s, a1,
                    Append(t, <<"save", TRUE>>)
                      \o maybe_notify(c2, implicit_cycle, has_tty, sent),
                    "Ok", <<target>>)
  ELSE Exit(c, d, s, a1,
            t \o maybe_notify(c, implicit_cycle, has_tty, sent),
            "InstallFailed", <<>>)

\* A match block that records the fingerprint only for an alias that has
\* none yet.
use_switched_stale_fingerprint(switched, target, token, implicit_cycle, c, d, s, a1, t, saveOk, has_tty, sent) ==
  IF switched
  THEN LET c1 == ensure_alias(c, target)
           c2 == [c1 EXCEPT
                    !.fingerprints =
                      IF target \in Keys(@) THEN @
                      ELSE MapInsert(@, target, token_fingerprint(token)),
                    !.last_used_alias = Some(target)]
       IN IF ~saveOk
          THEN Exit(c2, d, s, a1, Append(t, <<"save", FALSE>>),
                    "SaveError", <<>>)
          ELSE Exit(c2, c2, s, a1,
                    Append(t, <<"save", TRUE>>)
                      \o maybe_notify(c2, implicit_cycle, has_tty, sent),
                    "Ok", <<target>>)
  ELSE Exit(c, d, s, a1,
            t \o maybe_notify(c, implicit_cycle, has_tty, sent),
            "InstallFailed", <<>>)

\* The `match switched` block of use_token: a1 is what gh holds after
\* switch_gh_token, t the calls made so far.
use_switched(switched, target, token, implicit_cycle, c, d, s, a1, t, saveOk, has_tty, sent) ==
  IF switched
  THEN LET c1 == ensure_alias(c, target)
           c2 == [c1 EXCEPT
                    !.fingerprints =
                      MapInsert(@, target, token_fingerprint(token)),
                    !.last_used_alias = Some(target)]
       IN IF ~saveOk
          THEN Exit(c2, d, s, a1, Append(t, <<"save", FALSE>>),
                    "SaveError", <<>>)
          ELSE Exit(c2, c2, s, a1,
                    Append(t, <<"save", TRUE>>)
                      \o maybe_notify(c2, implicit_cycle, has_tty, sent),
                    "Ok", <<target>>)
  ELSE Exit(c, d, s, a1,
            t \o maybe_notify(c, implicit_cycle, has_tty, sent),
            "InstallFailed", <<>>)

\* use_token; `current` is the value current_alias returned (read only when
\* no alias is given), `fail` the first aborting step the environment makes
\* fail, has_tty and sent the terminal state and the delivery outcome.
use_token(alias_arg, c, d, s, a, current, ghOk, fail, has_tty, sent) ==
  LET implicit_cycle == alias_arg = None
      picked == IF implicit_cycle THEN pick_next_alias(c, current)
                ELSE Ok(alias_arg[1])
      t0 == IF implicit_cycle
            THEN <<<<"read_active", gh_current_token(a, ghOk).ok>>>>
            ELSE <<>>
  IN IF ~picked.ok THEN Exit(c, d, s, a, t0, picked.err, <<>>)
     ELSE LET target == picked.val
          IN IF fail = "entry" THEN Exit(c, d, s, a, t0, "EntryFailed", <<>>)
             ELSE IF fail = "get" \/ target \notin Keys(s)
                  THEN Exit(c, d, s, a, Append(t0, <<"store_get", FALSE>>),
                            "NotFound", <<>>)
             ELSE LET token == MapGet(s, target)
                      switched == fail # "install"
                      a1 == switch_gh_token(a, token, switched)
                      t1 == t0 \o <<<<"store_get", TRUE>>,
                                    <<"install", switched>>>>
                  IN use_switched(switched, target, token, implicit_cycle,
                                  c, d, s, a1, t1, fail # "save", has_tty, sent)

\* rename_alias's checks without the test for an existing `new`.
rename_precheck_identical_only(old, new, c) ==
  IF old = new THEN "IdenticalNames" ELSE "Ok"

\* The two checks rename_alias makes before it touches the keyring.
rename_precheck(old, new, c) ==
  IF old = new THEN "IdenticalNames"
  ELSE IF Contains(c.aliases, new) THEN "AliasExists"
  ELSE "Ok"

rename_alias(old, new, c, d, s, a, fail) ==
  IF rename_precheck(old, new, c) # "Ok"
  THEN Exit(c, d, s, a, <<>>, rename_precheck(old, new, c), <<>>)
  ELSE IF fail = "entry_old" THEN Exit(c, d, s, a, <<>>, "EntryFailed", <<>>)
  ELSE IF fail = "get" \/ old \notin Keys(s)
       THEN Exit(c, d, s, a, <<<<"store_get", FALSE>>>>, "NotFound", <<>>)
  ELSE LET token == MapGet(s, old)
           t1 == <<<<"store_get", TRUE>>>>
       IN IF fail = "entry_new"
          THEN Exit(c, d, s, a, t1, "EntryFailed", <<>>)
          ELSE IF fail = "set"
               THEN Exit(c, d, s, a, Append(t1, <<"store_set", FALSE>>),
                         "StoreError", <<>>)
          ELSE LET s1 == MapInsert(s, new, token)
                   t2 == Append(t1, <<"store_set", TRUE>>)
               IN IF fail = "delete"
                  THEN Exit(c, d, s1, a, Append(t2, <<"store_delete", FALSE>>),
                            "StoreError", <<>>)
                  ELSE LET s2 == MapRemove(s1, old)
                           t3 == Append(t2, <<"store_delete", TRUE>>)
                           c1 == apply_rename_metadata(c, old, new)
                       IN IF fail = "save"
                          THEN Exit(c1, d, s2, a, Append(t3, <<"save", FALSE>>),
                                    "SaveError", <<>>)
                          ELSE Exit(c1, c1, s2, a, Append(t3, <<"save", TRUE>>),
                                    "Ok", <<"renamed", old, new>>)

\* delete_alias persisting the directory before it asks the keyring.
delete_alias_save_first(alias, c, d, s, a, delOk, fail) ==
  IF fail = "entry" THEN Exit(c, d, s, a, <<>>, "EntryFailed", <<>>)
  ELSE LET c1 == apply_delete_metadata(c, alias)
           deleted == delOk /\ alias \in Keys(s)
           s1 == IF deleted THEN MapRemove(s, alias) ELSE s
       IN IF fail = "save"
          THEN Exit(c1, d, s, a, <<<<"save", FALSE>>>>, "SaveError", <<>>)
          ELSE Exit(c1, c1, s1, a,
                    <<<<"save", TRUE>>, <<"store_delete", deleted>>>>,
                    "Ok", <<"deleted", alias>>)

\* delete_alias returning the keyring's error instead of discarding it.
delete_alias_fails_on_store_error(alias, c, d, s, a, delOk, fail) ==
  IF fail = "entry" THEN Exit(c, d, s, a, <<>>, "EntryFailed", <<>>)
  ELSE IF ~(delOk /\ alias \in Keys(s))
       THEN Exit(c, d, s, a, <<<<"store_delete", FALSE>>>>, "StoreError", <<>>)
  ELSE LET s1 == MapRemove(s, alias)
           t1 == <<<<"store_delete", TRUE>>>>
           c1 == apply_delete_metadata(c, alias)
       IN IF fail = "save"
          THEN Exit(c1, d, s1, a, Append(t1, <<"save", FALSE>>), "SaveError", <<>>)
          ELSE Exit(c1, c1, s1, a, Append(t1, <<"save", TRUE>>),
                    "Ok", <<"deleted", alias>>)

\* delete_alias; delOk is the outcome of delete_credential, which also fails
\* when the keyring has no entry for the alias.
delete_alias(alias, c, d, s, a, delOk, fail) ==
  IF fail = "entry" THEN Exit(c, d, s, a, <<>>, "EntryFailed", <<>>)
  ELSE LET deleted == delOk /\ alias \in Keys(s)
           s1 == IF deleted THEN MapRemove(s, alias) ELSE s
           t1 == <<<<"store_delete", deleted>>>>
           c1 == apply_delete_metadata(c, alias)
       IN IF fail = "save"
          THEN Exit(c1, d, s1, a, Append(t1, <<"save", FALSE>>), "SaveError", <<>>)
          ELSE Exit(c1, c1, s1, a, Append(t1, <<"save", TRUE>>),
                    "Ok", <<"deleted", alias>>)

\* run(): the process returns; its effects and what it did become visible.
Return(command, r) ==
  /\ runs < MaxRuns
  /\ loaded' = disk
  /\ cmd' = command
  /\ cfg' = r.cfg
  /\ disk' = r.disk
  /\ store' = r.store
  /\ active' = r.active
  /\ trace' = r.trace
  /\ result' = r.result
  /\ stdout' = r.stdout
  /\ runs' = runs + 1

(* ---------------------------------------------------------------- actions *)

Init ==
  /\ disk = ConfigDefault
  /\ store = EmptyMap
  /\ active = None
  /\ loaded = ConfigDefault
  /\ cfg = ConfigDefault
  /\ cmd = [op |-> "start"]
  /\ trace = <<>>
  /\ result = "Ok"
  /\ stdout = <<>>
  /\ runs = 0

Set ==
  \E alias \in Names, token \in TokenInputs,
     fail \in {"none", "read", "entry", "set", "save"} :
    Return([op |-> "set", alias |-> alias, token |-> token],
           set_token(alias, disk, disk, store, active, token, fail))

\* The outcomes send_notification can have: it is called only when the gate
\* is open.
Delivery(c, implicit_cycle, has_tty) ==
  IF should_notify(c, implicit_cycle, has_tty) THEN BOOLEAN ELSE {TRUE}

\* `use <alias>`: current_alias is not consulted.
UseExplicit ==
  \E alias \in Names, has_tty \in BOOLEAN,
     fail \in {"none", "entry", "get", "install", "save"} :
    \E sent \in Delivery(disk, FALSE, has_tty) :
      Return([op |-> "use", alias_arg |-> Some(alias), has_tty |-> has_tty],
             use_token(Some(alias), disk, disk, store, active, None, TRUE,
                       fail, has_tty, sent))

\* `use` and the bare command: cycle to the next alias.
UseImplicit ==
  \E ghOk \in BOOLEAN, has_tty \in BOOLEAN,
     fail \in {"none", "entry", "get", "install", "save"} :
    \E current \in current_alias(disk, active, ghOk),
       sent \in Delivery(disk, TRUE, has_tty) :
      Return([op |-> "use", alias_arg |-> None, has_tty |-> has_tty],
             use_token(None, disk, disk, store, active, current, ghOk,
                       fail, has_tty, sent))

Current ==
  \E ghOk \in BOOLEAN :
    \E current \in current_alias(disk, active, ghOk) :
      Return([op |-> "current"],
             Exit(disk, disk, store, active,
                  <<<<"read_active", gh_current_token(active, ghOk).ok>>>>,
                  "Ok",
                  IF current = None THEN <<"unknown">> ELSE current))

List ==
  Return([op |-> "list"],
         Exit(disk, disk, store, active, <<>>, "Ok", disk.aliases))

Rename ==
  \E old \in Names, new \in Names,
     fail \in {"none", "entry_old", "get", "entry_new", "set", "delete", "save"} :
    Return([op |-> "rename", old |-> old, new |-> new],
           rename_alias(old, new, disk, disk, store, active, fail))

Delete ==
  \E alias \in Names, delOk \in BOOLEAN, fail \in {"none", "entry", "save"} :
    Return([op |-> "delete", alias |-> alias],
           delete_alias(alias, disk, disk, store, active, delOk, fail))

Next == Set \/ UseExplicit \/ UseImplicit \/ Current \/ List \/ Rename \/ Delete

Spec == Init /\ [][Next]_vars

(* ------------------------------------------- the pure functions on their own *)

\* The secrets the keyring can hold: what set_token stores.
Secrets == {Trim(t) : t \in TokenInputs} \ {<<>>}

Range(f) == {f[x] : x \in DOMAIN f}

NoDuplicates(aliases) ==
  \A i, j \in 1..Len(aliases) : aliases[i] = aliases[j] => i = j

\* The alias lists of at most n names without repetition.
AliasLists(n) ==
  {l \in UNION {[1..k -> PureNames] : k \in 0..n} : NoDuplicates(l)}

\* The directories the transforms are handed: Config values as the commands
\* keep them, with at most n aliases.
Directories(n) ==
  {[aliases |-> l, fingerprints |-> f,
    notifications |-> NotificationConfigDefault, last_used_alias |-> u] :
     l \in AliasLists(n),
     f \in {m \in SUBSET (PureNames \X {token_fingerprint(t) : t \in Secrets}) :
              \A e1, e2 \in m : e1[1] = e2[1] => e1 = e2},
     u \in {None} \cup {Some(n1) : n1 \in PureNames}}

WellFormed(c) ==
  /\ NoDuplicates(c.aliases)
  /\ Keys(c.fingerprints) \subseteq Range(c.aliases)
  /\ c.last_used_alias = None \/ c.last_used_alias[1] \in Range(c.aliases)

InitPure ==
  /\ cfg \in {c \in Directories(MaxAliases) : WellFormed(c)}
  /\ loaded = cfg
  /\ disk = ConfigDefault
  /\ store = EmptyMap
  /\ active = None
  /\ cmd = [op |-> "start"]
  /\ trace = <<>>
  /\ result = "Ok"
  /\ stdout = <<>>
  /\ runs = 0

\* One call of a pure function on the directory at hand: `loaded` keeps the
\* argument, `cfg` the directory afterwards.
Call(command, c1, r, out) ==
  /\ loaded' = cfg
  /\ cfg' = c1
  /\ cmd' = command
  /\ result' = r
  /\ stdout' = out
  /\ UNCHANGED <<disk, store, active, trace, runs>>

CallChooseNext ==
  \E current \in {None} \cup {Some(n) : n \in PureNames} :
    LET r == choose_next_alias(cfg.aliases, current)
    IN Call([op |-> "choose_next", current |-> current], cfg,
            IF r.ok THEN "Ok" ELSE r.err,
            IF r.ok THEN <<r.val>> ELSE <<>>)

\* apply_rename_metadata as rename_alias calls it: after its two checks.
CallRename ==
  \E old \in PureNames, new \in PureNames :
    /\ rename_precheck(old, new, cfg) = "Ok"
    /\ Call([op |-> "apply_rename", old |-> old, new |-> new],
            apply_rename_metadata(cfg, old, new), "Ok", <<>>)

CallDelete ==
  \E alias \in PureNames :
    Call([op |-> "apply_delete", alias |-> alias],
         apply_delete_metadata(cfg, alias), "Ok", <<>>)

\* The secrets handed to alias_for_token: as gh prints them (a newline
\* after the token), padded by hand, and one no alias was given.
ResolveTokens == {<<"x", "\n">>, <<" ", "y">>, <<"y", "x">>}

CallAliasForToken ==
  \E token \in ResolveTokens :
    \E found \in alias_for_token(cfg, token) :
      Call([op |-> "alias_for_token", token |-> token], cfg, "Ok", found)

NextPure == CallChooseNext \/ CallRename \/ CallDelete \/ CallAliasForToken

SpecPure == InitPure /\ [][NextPure]_vars

(* ------------------------------------------------ the notification gate *)

\* Every NotificationConfig a config.toml can hold.
NotificationConfigs ==
  [enabled : BOOLEAN, only_when_no_tty : BOOLEAN,
   only_on_implicit_cycle : BOOLEAN]

InitNotify ==
  /\ cfg \in {[ConfigDefault EXCEPT !.notifications = n] :
                n \in NotificationConfigs}
  /\ loaded = cfg
  /\ disk = cfg
  /\ store = EmptyMap
  /\ active = None
  /\ cmd = [op |-> "start"]
  /\ trace = <<>>
  /\ result = "Ok"
  /\ stdout = <<>>
  /\ runs = 0

\* One call of should_notify on the configuration at hand, for a switch that
\* was implicit or not and a terminal on any of the three streams.
CallShouldNotify ==
  \E implicit_cycle \in BOOLEAN,
     stdin_tty \in BOOLEAN, stdout_tty \in BOOLEAN, stderr_tty \in BOOLEAN :
    Call([op |-> "should_notify", implicit_cycle |-> implicit_cycle,
          stdin_tty |-> stdin_tty, stdout_tty |-> stdout_tty,
          stderr_tty |-> stderr_tty],
         cfg, "Ok",
         IF should_notify(cfg, implicit_cycle,
                          has_tty_of(stdin_tty, stdout_tty, stderr_tty))
         THEN <<"true">> ELSE <<"false">>)

NextNotify == CallShouldNotify

SpecNotify == InitNotify /\ [][NextNotify]_vars

(* ----------------------------------------------------------------- claims *)

\* C1: in every persisted directory reachable from the empty one by set, use,
\* rename and delete commands, whatever external step fails, `aliases` holds
\* no name twice.
C1_AliasesUnique == NoDuplicates(disk.aliases)

\* C1 witness: a rename has been persisted into a directory of several
\* aliases, after set and use have filled it.
C1_Witness ==
  /\ cmd.op = "rename" /\ result = "Ok"
  /\ Len(disk.aliases) >= 2
  /\ disk.last_used_alias # None

\* C2: in every persisted directory reachable by the commands, every key of
\* `fingerprints` is an element of `aliases`.
C2_FingerprintKeysAreAliases ==
  Keys(disk.fingerprints) \subseteq Range(disk.aliases)

\* C2 witness: a delete has been persisted and another alias keeps its
\* fingerprint.
C2_Witness ==
  /\ cmd.op = "delete" /\ result = "Ok"
  /\ cmd.alias \in Keys(loaded.fingerprints)
  /\ Keys(disk.fingerprints) # {}

\* C3: in every persisted directory reachable by the commands,
\* last_used_alias is None or names an element of `aliases`; rename and
\* delete of the last-used alias do not leave it dangling.
C3_LastUsedIsAlias ==
  disk.last_used_alias = None
    \/ disk.last_used_alias[1] \in Range(disk.aliases)

\* C3 witness: the last-used alias itself has been renamed, and the marker
\* followed it.
C3_Witness ==
  /\ cmd.op = "rename" /\ result = "Ok"
  /\ loaded.last_used_alias = Some(cmd.old)
  /\ disk.last_used_alias = Some(cmd.new)

\* C3 second case: the last-used alias itself has been deleted.
C3_WitnessDelete ==
  /\ cmd.op = "delete" /\ result = "Ok"
  /\ loaded.last_used_alias = Some(cmd.alias)
  /\ disk.last_used_alias = None

\* The positions of the invocation's save_config calls in its trace.
Saves == {i \in 1..Len(trace) : trace[i][1] = "save"}

\* The keyring calls and gh's install: the external operations a command's
\* directory update rests on.
DirectoryOps == {"store_get", "store_set", "store_delete", "install"}

\* Every call to the keyring or to gh.
StoreOrHelperOps == DirectoryOps \cup {"read_active"}

\* C4 as stated: within one invocation the directory is saved at most once,
\* every keyring get/set/delete and gh install made before the save returned
\* successfully, and no keyring or gh call follows the save.
C4_Original ==
  /\ Cardinality(Saves) <= 1
  /\ \A i \in Saves :
       /\ \A j \in 1..(i - 1) : trace[j][1] \in DirectoryOps => trace[j][2]
       /\ \A j \in (i + 1)..Len(trace) : trace[j][1] \notin StoreOrHelperOps

\* C4 amended: as C4, except that the delete command saves after its keyring
\* delete whether that delete succeeded or failed.
C4_SaveOnceAfterExternalSuccess ==
  /\ Cardinality(Saves) <= 1
  /\ \A i \in Saves :
       /\ \A j \in 1..(i - 1) :
            trace[j][1] \in DirectoryOps =>
              \/ trace[j][2]
              \/ cmd.op = "delete" /\ trace[j][1] = "store_delete"
       /\ \A j \in (i + 1)..Len(trace) : trace[j][1] \notin StoreOrHelperOps

\* C4 witness: a rename saved once, after its three keyring calls succeeded.
C4_Witness ==
  /\ cmd.op = "rename"
  /\ trace = <<<<"store_get", TRUE>>, <<"store_set", TRUE>>,
               <<"store_delete", TRUE>>, <<"save", TRUE>>>>

\* C4 second case: a delete whose keyring delete failed, and which saved.
C4_WitnessDelete ==
  /\ cmd.op = "delete"
  /\ trace = <<<<"store_delete", FALSE>>, <<"save", TRUE>>>>
  /\ cmd.alias \in Keys(store)

\* C5: a use command (named or cycling) that fails with NotFound or
\* InstallFailed saves nothing and leaves the persisted directory (aliases,
\* fingerprints, last_used_alias) as it was.
C5_FailedUseLeavesDirectory ==
  (cmd.op = "use" /\ result \in {"NotFound", "InstallFailed"}) =>
    /\ disk = loaded
    /\ Saves = {}

\* C5 witness: gh refused a secret whose alias is in the keyring but not yet
\* in the directory, so a persisted switch would have changed the directory.
C5_Witness ==
  /\ cmd.op = "use" /\ result = "InstallFailed"
  /\ cmd.alias_arg # None
  /\ cmd.alias_arg[1] \in Keys(store)
  /\ ~Contains(loaded.aliases, cmd.alias_arg[1])

\* C5 second case: the keyring had no secret for the target.
C5_WitnessNotFound ==
  /\ cmd.op = "use" /\ result = "NotFound"
  /\ cmd.alias_arg # None
  /\ cmd.alias_arg[1] \notin Keys(store)
  /\ loaded.aliases # <<>>

\* C6: for an alias list of length >= 2, choose_next returns the first alias
\* when current is None, the alias after current (the last wrapping to the
\* first) when current is in the list, and the second alias when current is
\* not in the list.
C6_ChooseNext ==
  (cmd.op = "choose_next" /\ Len(loaded.aliases) >= 2) =>
    LET l == loaded.aliases
        n == Len(l)
        cur == cmd.current
    IN /\ result = "Ok"
       /\ cur = None => stdout = <<l[1]>>
       /\ \A i \in 1..n :
            cur = Some(l[i]) => stdout = <<IF i = n THEN l[1] ELSE l[i + 1]>>
       /\ (cur # None /\ cur[1] \notin Range(l)) => stdout = <<l[2]>>

\* C6 witness: a current that is not among three aliases yields the second.
C6_Witness ==
  /\ cmd.op = "choose_next"
  /\ Len(loaded.aliases) = 3
  /\ cmd.current = Some("missing")
  /\ "missing" \notin Range(loaded.aliases)
  /\ stdout = <<loaded.aliases[2]>>

\* C6 second case: the last of three aliases wraps to the first.
C6_WitnessWrap ==
  /\ cmd.op = "choose_next"
  /\ Len(loaded.aliases) = 3
  /\ cmd.current = Some(loaded.aliases[3])
  /\ stdout = <<loaded.aliases[1]>>

\* C7: with fewer than 2 aliases choose_next fails with InsufficientAliases
\* whatever current is, and a cycling use then ends with that error without a
\* keyring read, a gh install or a save, the directory unchanged in memory
\* and on disk.
C7_CycleNeedsTwoAliases ==
  /\ Len(disk.aliases) < 2 =>
       \A cur \in {None} \cup {Some(n) : n \in PureNames} :
         choose_next_alias(disk.aliases, cur) = Err("InsufficientAliases")
  /\ (cmd.op = "use" /\ cmd.alias_arg = None /\ Len(loaded.aliases) < 2) =>
       /\ result = "InsufficientAliases"
       /\ \A i \in 1..Len(trace) : trace[i][1] = "read_active"
       /\ cfg = loaded
       /\ disk = loaded

\* C7 witness: cycling with one alias, which is the active one.
C7_Witness ==
  /\ cmd.op = "use" /\ cmd.alias_arg = None
  /\ Len(loaded.aliases) = 1
  /\ active # None
  /\ loaded.last_used_alias = Some(loaded.aliases[1])
  /\ result = "InsufficientAliases"

\* C8: a successful rename(old, new) of an alias that is in `aliases` puts
\* `new` at the position `old` had and leaves every other alias in place;
\* the fingerprint of `old`, if any, is found unchanged under `new` and no
\* entry is left under `old`; last_used_alias becomes Some(new) exactly when
\* it was Some(old); every other fingerprint entry, last_used_alias otherwise
\* and the notification configuration are unchanged.
C8_RenameFrame ==
  (cmd.op = "rename" /\ result = "Ok" /\ Contains(loaded.aliases, cmd.old)) =>
    LET old == cmd.old
        new == cmd.new
        before == loaded.fingerprints
        after == disk.fingerprints
    IN /\ Len(disk.aliases) = Len(loaded.aliases)
       /\ \A k \in 1..Len(loaded.aliases) :
            disk.aliases[k] =
              IF loaded.aliases[k] = old THEN new ELSE loaded.aliases[k]
       /\ old \notin Keys(after)
       /\ \A e \in before : e[1] = old => <<new, e[2]>> \in after
       /\ old \notin Keys(before) =>
            {e \in after : e[1] = new} = {e \in before : e[1] = new}
       /\ {e \in after : e[1] \notin {old, new}}
            = {e \in before : e[1] \notin {old, new}}
       /\ disk.last_used_alias =
            IF loaded.last_used_alias = Some(old)
            THEN Some(new)
            ELSE loaded.last_used_alias
       /\ disk.notifications = loaded.notifications

\* C8 witness: the first of two aliases, fingerprinted and last used, has been
\* renamed while the second keeps its own fingerprint.
C8_Witness ==
  /\ cmd.op = "rename" /\ result = "Ok"
  /\ Len(loaded.aliases) = 2
  /\ loaded.aliases[1] = cmd.old
  /\ cmd.old \in Keys(loaded.fingerprints)
  /\ loaded.aliases[2] \in Keys(loaded.fingerprints)
  /\ loaded.last_used_alias = Some(cmd.old)
  /\ disk.aliases[1] = cmd.new

\* C9: rename(old, new) fails with IdenticalNames when old = new, and with
\* AliasExists when new differs from old and is already in `aliases`; either
\* way no keyring call has been made and the directory is as it was, in
\* memory and on disk.
C9_RenamePreconditions ==
  cmd.op = "rename" =>
    /\ cmd.old = cmd.new =>
         /\ result = "IdenticalNames"
         /\ trace = <<>>
         /\ cfg = loaded
         /\ disk = loaded
    /\ (cmd.old # cmd.new /\ Contains(loaded.aliases, cmd.new)) =>
         /\ result = "AliasExists"
         /\ trace = <<>>
         /\ cfg = loaded
         /\ disk = loaded

\* C9 witness: a rename onto another alias of the directory, both with a
\* secret in the keyring, has been refused.
C9_Witness ==
  /\ cmd.op = "rename" /\ result = "AliasExists"
  /\ Contains(loaded.aliases, cmd.old)
  /\ {cmd.old, cmd.new} \subseteq Keys(store)

\* C9 second case: a rename of an alias onto itself has been refused.
C9_WitnessIdentical ==
  /\ cmd.op = "rename" /\ result = "IdenticalNames"
  /\ Contains(loaded.aliases, cmd.old)
  /\ cmd.old \in Keys(store)

\* C10: the delete transform always succeeds; afterwards the alias is in
\* neither `aliases` nor the keys of `fingerprints`, last_used_alias is None
\* if it named the alias and is unchanged otherwise, the remaining aliases
\* keep their relative order and their fingerprints; and on a directory
\* that does not hold the alias (after a first delete, or never) it changes
\* nothing.
C10_DeleteTransform ==
  cmd.op = "apply_delete" =>
    LET alias == cmd.alias
        rest == Range(loaded.aliases) \ {alias}
    IN /\ result = "Ok"
       /\ ~Contains(cfg.aliases, alias)
       /\ alias \notin Keys(cfg.fingerprints)
       /\ cfg.last_used_alias =
            IF loaded.last_used_alias = Some(alias)
            THEN None
            ELSE loaded.last_used_alias
       /\ Range(cfg.aliases) = rest
       /\ Len(cfg.aliases) = Cardinality(rest)
       /\ \A i, j \in 1..Len(cfg.aliases) :
            i < j =>
              \E k, l \in 1..Len(loaded.aliases) :
                /\ k < l
                /\ loaded.aliases[k] = cfg.aliases[i]
                /\ loaded.aliases[l] = cfg.aliases[j]
       /\ cfg.fingerprints = {e \in loaded.fingerprints : e[1] # alias}
       /\ (/\ ~Contains(loaded.aliases, alias)
           /\ alias \notin Keys(loaded.fingerprints)
           /\ loaded.last_used_alias # Some(alias)) => cfg = loaded

\* C10 witness: the middle one of three aliases, fingerprinted and last used,
\* has been deleted.
C10_Witness ==
  /\ cmd.op = "apply_delete"
  /\ Len(loaded.aliases) = 3
  /\ loaded.aliases[2] = cmd.alias
  /\ cmd.alias \in Keys(loaded.fingerprints)
  /\ loaded.last_used_alias = Some(cmd.alias)
  /\ cfg.aliases = <<loaded.aliases[1], loaded.aliases[3]>>
  /\ Keys(cfg.fingerprints) # {}

\* C10 second case: the delete has been applied to a directory of several
\* aliases that does not hold the alias.
C10_WitnessAbsent ==
  /\ cmd.op = "apply_delete"
  /\ Len(loaded.aliases) >= 2
  /\ ~Contains(loaded.aliases, cmd.alias)
  /\ loaded.last_used_alias # None
  /\ cfg = loaded

\* C11: in the delete command the outcome of the keyring's delete, success
\* or failure (a missing entry included), does not stop the cleanup: once
\* the keyring has been asked, the alias is gone from aliases, fingerprints
\* and last_used_alias, the directory is saved, and when that save succeeds
\* the command reports success with the cleaned directory on disk.
C11_DeleteIsBestEffort ==
  (cmd.op = "delete" /\ trace # <<>>) =>
    /\ trace[1][1] = "store_delete"
    /\ Len(trace) = 2
    /\ trace[2][1] = "save"
    /\ ~Contains(cfg.aliases, cmd.alias)
    /\ cmd.alias \notin Keys(cfg.fingerprints)
    /\ cfg.last_used_alias # Some(cmd.alias)
    /\ trace[2][2] => (result = "Ok" /\ disk = cfg)

\* C11 witness: the keyring refused to delete an existing entry of the
\* last-used, fingerprinted alias, and the delete command still succeeded.
C11_Witness ==
  /\ cmd.op = "delete" /\ result = "Ok"
  /\ trace[1] = <<"store_delete", FALSE>>
  /\ cmd.alias \in Keys(store)
  /\ cmd.alias \in Keys(loaded.fingerprints)
  /\ loaded.last_used_alias = Some(cmd.alias)
  /\ ~Contains(disk.aliases, cmd.alias)

\* C11 second case: the keyring had no entry for the alias.
C11_WitnessNoEntry ==
  /\ cmd.op = "delete" /\ result = "Ok"
  /\ trace[1] = <<"store_delete", FALSE>>
  /\ cmd.alias \notin Keys(store)
  /\ Contains(loaded.aliases, cmd.alias)

\* C12: for every combination of the three configuration flags, of implicit
\* or explicit switch and of attached terminals, should_notify is true
\* exactly when notifications are enabled, and only_on_implicit_cycle is off
\* or the switch was implicit, and only_when_no_tty is off or none of stdin,
\* stdout and stderr is a terminal; with the default configuration an
\* explicit switch never notifies.
C12_NotificationGate ==
  cmd.op = "should_notify" =>
    LET n == loaded.notifications
        no_tty == ~cmd.stdin_tty /\ ~cmd.stdout_tty /\ ~cmd.stderr_tty
        expected == /\ n.enabled
                    /\ ~n.only_on_implicit_cycle \/ cmd.implicit_cycle
                    /\ ~n.only_when_no_tty \/ no_tty
    IN /\ stdout = <<"true">> <=> expected
       /\ stdout = <<"false">> <=> ~expected
       /\ (/\ n.enabled /\ n.only_when_no_tty /\ n.only_on_implicit_cycle
           /\ ~cmd.implicit_cycle) => stdout = <<"false">>

\* C12 witness: notifications enabled for every switch, no terminal attached,
\* an explicit switch: the gate is open.
C12_Witness ==
  /\ cmd.op = "should_notify"
  /\ loaded.notifications.enabled
  /\ ~loaded.notifications.only_on_implicit_cycle
  /\ loaded.notifications.only_when_no_tty
  /\ ~cmd.implicit_cycle
  /\ ~cmd.stdin_tty /\ ~cmd.stdout_tty /\ ~cmd.stderr_tty
  /\ stdout = <<"true">>

\* C12 second case: the default configuration and an explicit switch with no
\* terminal attached: the gate is closed.
C12_WitnessDefault ==
  /\ cmd.op = "should_notify"
  /\ loaded.notifications = NotificationConfigDefault
  /\ ~cmd.implicit_cycle
  /\ ~cmd.stdin_tty /\ ~cmd.stdout_tty /\ ~cmd.stderr_tty
  /\ stdout = <<"false">>

\* The positions of the invocation's notification deliveries in its trace.
Notifications == {i \in 1..Len(trace) : trace[i][1] = "notify"}

\* C13: a use command attempts a delivery only when the notification gate
\* is open, at most once and as its last external call; and whether the
\* delivery succeeds or fails, the command's result and the directory on
\* disk are what the switch alone made them: success with the updated
\* directory after a saved switch, InstallFailed with the old directory
\* after a refused one.
C13_NotificationIsBestEffort ==
  cmd.op = "use" =>
    /\ Notifications # {} =>
         should_notify(cfg, cmd.alias_arg = None, cmd.has_tty)
    /\ Cardinality(Notifications) <= 1
    /\ \A i \in Notifications :
         /\ i = Len(trace)
         /\ i > 1
         /\ IF trace[i - 1] = <<"save", TRUE>>
            THEN result = "Ok" /\ disk = cfg /\ Len(stdout) = 1
            ELSE /\ trace[i - 1] = <<"install", FALSE>>
                 /\ result = "InstallFailed"
                 /\ disk = loaded
                 /\ cfg = loaded

\* C13 witness: a cycling switch was saved, its notification failed to be
\* delivered, and the command succeeded.
C13_Witness ==
  /\ cmd.op = "use" /\ cmd.alias_arg = None
  /\ trace[Len(trace)] = <<"notify", FALSE>>
  /\ result = "Ok"
  /\ disk.last_used_alias = Some(stdout[1])

\* C13 second case: the same switch with the notification delivered.
C13_WitnessDelivered ==
  /\ cmd.op = "use" /\ cmd.alias_arg = None
  /\ trace[Len(trace)] = <<"notify", TRUE>>
  /\ result = "Ok"
  /\ disk.last_used_alias = Some(stdout[1])

\* C14: resolve never fails; it returns None when no stored fingerprint
\* equals the fingerprint of the secret with its surrounding whitespace
\* trimmed, and returns exactly the matching alias when exactly one stored
\* fingerprint matches.
C14_Resolve ==
  cmd.op = "alias_for_token" =>
    LET fp == token_fingerprint(Trim(cmd.token))
        hits == {e \in loaded.fingerprints : e[2] = fp}
    IN /\ result = "Ok"
       /\ cfg = loaded
       /\ hits = {} => stdout = None
       /\ Cardinality(hits) = 1 => \E e \in hits : stdout = Some(e[1])
       /\ stdout # None => stdout[1] \in Keys(hits)

\* C14 witness: of two fingerprinted aliases exactly one carries the
\* fingerprint of the secret gh printed, and it is the one returned.
C14_Witness ==
  /\ cmd.op = "alias_for_token"
  /\ cmd.token = <<"x", "\n">>
  /\ Cardinality(loaded.fingerprints) = 2
  /\ Cardinality({e \in loaded.fingerprints :
                    e[2] = token_fingerprint(<<"x">>)}) = 1
  /\ stdout # None
  /\ <<stdout[1], token_fingerprint(<<"x">>)>> \in loaded.fingerprints

\* C14 second case: no alias carries the secret's fingerprint.
C14_WitnessNone ==
  /\ cmd.op = "alias_for_token"
  /\ cmd.token = <<"y", "x">>
  /\ Cardinality(loaded.fingerprints) = 2
  /\ stdout = None

\* C15 as stated: for an alias list of length >= 2 and a current that is not
\* in the list, choose_next returns what it returns for no current.
C15_Original ==
  (/\ cmd.op = "choose_next"
   /\ Len(loaded.aliases) >= 2
   /\ cmd.current # None
   /\ cmd.current[1] \notin Range(loaded.aliases)) =>
    /\ choose_next_alias(loaded.aliases, None).ok
    /\ stdout = <<choose_next_alias(loaded.aliases, None).val>>

\* C15 amended: for an alias list of length >= 2 and a current that is not
\* in the list, choose_next returns what it returns when the first alias is
\* current, the second alias, which is not what it returns for no current,
\* the first alias.
C15_UnknownCurrentIsFirstPosition ==
  (/\ cmd.op = "choose_next"
   /\ Len(loaded.aliases) >= 2
   /\ cmd.current # None
   /\ cmd.current[1] \notin Range(loaded.aliases)) =>
    LET l == loaded.aliases
    IN /\ result = "Ok"
       /\ choose_next_alias(l, Some(l[1])) = Ok(stdout[1])
       /\ stdout = <<l[2]>>
       /\ choose_next_alias(l, None) = Ok(l[1])
       /\ l[1] # stdout[1]

\* C15 witness: with two aliases and a current that is neither, the second
\* alias is chosen.
C15_Witness ==
  /\ cmd.op = "choose_next"
  /\ Len(loaded.aliases) = 2
  /\ cmd.current # None
  /\ cmd.current[1] \notin Range(loaded.aliases)
  /\ stdout = <<loaded.aliases[2]>>

\* The names with a secret in the keyring are the names in `aliases`.
StoreAgrees(s, c) == Keys(s) = Range(c.aliases)

\* C16: if the names with a secret in the keyring are exactly the aliases of
\* the directory on disk before a rename command, they are so when the
\* command returns, whether it succeeded or failed at any of its steps.
C16_RenameKeepsStoreAgreement ==
  [][(cmd'.op = "rename" /\ StoreAgrees(store, disk))
       => StoreAgrees(store', disk')]_vars

\* C17: after a use command succeeded for target T (named, or chosen by
\* cycling), the directory on disk has T in `aliases`, the fingerprint of the
\* secret read from the keyring and installed in gh under T, and
\* last_used_alias = Some(T); the fingerprints of the other aliases are as
\* they were.
C17_UseSuccess ==
  (cmd.op = "use" /\ result = "Ok") =>
    /\ Len(stdout) = 1
    /\ cmd.alias_arg # None => cmd.alias_arg = Some(stdout[1])
    /\ stdout[1] \in Keys(store)
    /\ LET T == stdout[1]
           secret == MapGet(store, T)
       IN /\ active = Some(secret)
          /\ Contains(disk.aliases, T)
          /\ {e \in disk.fingerprints : e[1] = T}
               = {<<T, token_fingerprint(secret)>>}
          /\ disk.last_used_alias = Some(T)
          /\ {e \in disk.fingerprints : e[1] # T}
               = {e \in loaded.fingerprints : e[1] # T}

\* C17 witness: a switch to an alias that had no fingerprint yet, in a
\* directory where another alias has one and was the last used.
C17_Witness ==
  /\ cmd.op = "use" /\ result = "Ok"
  /\ stdout[1] \notin Keys(loaded.fingerprints)
  /\ loaded.last_used_alias # None
  /\ loaded.last_used_alias # Some(stdout[1])
  /\ Cardinality(disk.fingerprints) = 2

\* C17 second case: the switch replaced a fingerprint that no longer matched
\* the secret in the keyring.
C17_WitnessStale ==
  /\ cmd.op = "use" /\ result = "Ok"
  /\ stdout[1] \in Keys(loaded.fingerprints)
  /\ MapGet(loaded.fingerprints, stdout[1])
       # MapGet(disk.fingerprints, stdout[1])

\* C18: set and use keep the insertion order of `aliases`: a command that
\* succeeds for an alias already listed leaves the list as it was, one that
\* succeeds for a new alias appends it after the existing ones, and one that
\* fails leaves the list on disk as it was.
C18_InsertionOrder ==
  cmd.op \in {"set", "use"} =>
    IF result = "Ok"
    THEN LET T == IF cmd.op = "set" THEN cmd.alias ELSE stdout[1]
         IN /\ disk.aliases = cfg.aliases
            /\ disk.aliases = IF Contains(loaded.aliases, T)
                              THEN loaded.aliases
                              ELSE Append(loaded.aliases, T)
    ELSE disk.aliases = loaded.aliases

\* C18 witness: set has added a third alias behind the two existing ones.
C18_Witness ==
  /\ cmd.op = "set" /\ result = "Ok"
  /\ Len(loaded.aliases) = 2
  /\ ~Contains(loaded.aliases, cmd.alias)
  /\ disk.aliases = Append(loaded.aliases, cmd.alias)

\* C18 second case: use has switched to the first of two listed aliases and
\* the list is as it was.
C18_WitnessUse ==
  /\ cmd.op = "use" /\ result = "Ok"
  /\ Len(loaded.aliases) = 2
  /\ stdout = <<loaded.aliases[1]>>
  /\ disk.aliases = loaded.aliases

\* C18 third case: use has appended an alias known only to the keyring.
C18_WitnessUseNew ==
  /\ cmd.op = "use" /\ result = "Ok"
  /\ loaded.aliases # <<>>
  /\ ~Contains(loaded.aliases, stdout[1])
  /\ disk.aliases = Append(loaded.aliases, stdout[1])

\* Every alias of the directory was set with a secret of its own: each has
\* its secret in the keyring and that secret's fingerprint in the directory,
\* and no two secrets are equal.
EachSetWithOwnSecret(c, s) ==
  /\ Len(c.aliases) >= 2
  /\ Range(c.aliases) \subseteq Keys(s)
  /\ c.fingerprints =
       {<<n, token_fingerprint(MapGet(s, n))>> : n \in Range(c.aliases)}
  /\ \A n1, n2 \in Range(c.aliases) :
       MapGet(s, n1) = MapGet(s, n2) => n1 = n2

\* The alias after n in cycle order, the last wrapping to the first.
Successor(aliases, n) == aliases[(Position(aliases, n) % Len(aliases)) + 1]

\* A cycling use in which every external operation succeeded.
CycledOk(c, t, r) ==
  /\ c.op = "use" /\ c.alias_arg = None
  /\ r = "Ok"
  /\ t[1] = <<"read_active", TRUE>>

C19_WitnessWrap ==
  /\ CycledOk(cmd, trace, result)
  /\ EachSetWithOwnSecret(disk, store)
  /\ loaded.last_used_alias = Some(disk.aliases[Len(disk.aliases)])
  /\ stdout = <<disk.aliases[1]>>

\* The aliases besides n that carry n's fingerprint in directory c.
SameFingerprint(c, n) ==
  {m \in Keys(c.fingerprints) \ {n} :
     MapGet(c.fingerprints, m) = MapGet(c.fingerprints, n)}

\* C20 as stated: right after a successful use for target T, `current`
\* reports T and no other alias.
C20_Original ==
  (cmd.op = "use" /\ result = "Ok")
    => current_alias(disk, active, TRUE) = {Some(stdout[1])}

\* C20 as the code has it: right after a successful use for target T, with
\* gh answering, `current` reports an alias that carries T's fingerprint; T
\* is among the aliases it can report, and it is the only one exactly when
\* no other alias of the directory carries the same fingerprint.
C20_CurrentAfterUse ==
  (cmd.op = "use" /\ result = "Ok")
    => LET T == stdout[1]
           reported == current_alias(disk, active, TRUE)
       IN /\ Some(T) \in reported
          /\ None \notin reported
          /\ reported = {Some(T)} \cup {Some(m) : m \in SameFingerprint(disk, T)}
          /\ (SameFingerprint(disk, T) = {}) <=> (reported = {Some(T)})

\* C20 witness: a successful use in a directory whose other alias has a
\* different fingerprint, so that `current` reports the target alone.
C20_Witness ==
  /\ cmd.op = "use" /\ result = "Ok"
  /\ Cardinality(Keys(disk.fingerprints)) >= 2
  /\ SameFingerprint(disk, stdout[1]) = {}
  /\ current_alias(disk, active, TRUE) = {Some(stdout[1])}

\* C20 second case: a successful use of an alias whose secret another alias
\* was set with too, so that `current` may report either.
C20_WitnessShared ==
  /\ cmd.op = "use" /\ result = "Ok"
  /\ SameFingerprint(disk, stdout[1]) # {}
  /\ Cardinality(current_alias(disk, active, TRUE)) >= 2

====
